---- MODULE Spec2Model ----
(***************************************************************************)
(* Model of the Telegram GPT bot (src/src/index.ts): the usage-metering    *)
(* and streaming-response pipeline over the MongoDB collections users,     *)
(* chats, user_stats, invoices and payments.                               *)
(*                                                                         *)
(* Every inbound event is handled by a request: a stack of labels, one     *)
(* label per awaited operation of the handler's code.  A step performs the *)
(* awaited operation at the top of the stack together with the local       *)
(* computation that leads to it, so requests interleave exactly at the     *)
(* awaits.  All requests belong to one Telegram user (UserId); the chats   *)
(* collection also holds turns of another user.                            *)
(***************************************************************************)
EXTENDS Integers, Sequences, FiniteSets, TLC

VARIABLES
    now,        \* the wall clock, in seconds (new Date())
    ticks,      \* how often the clock has advanced
    users,      \* collection users: the documents with userId = UserId
    chats,      \* collection chats, in insertion order
    stats,      \* collection user_stats: the document of UserId, if any
    invoices,   \* collection invoices: the payloads stored
    payments,   \* collection payments
    rq,         \* the requests: per slot, the handler's position and locals
    slots,      \* the slots that may handle events (one: sequential handling)
    budget,     \* inbound events still to be delivered
    faults,     \* failures of awaited operations still to be injected
    provider,   \* the completion API: the parts a stream may yield, how many
    win         \* history: requests admitted in the current quota window

vars == <<now, ticks, users, chats, stats, invoices, payments, rq, slots,
          budget, faults, provider, win>>

----------------------------------------------------------------------------
(* Program constants *)

MAX_CONTEXT_MESSAGES == 8
STREAM_CHUNK_SIZE == 100
FREE_DAILY_LIMIT == 10
PREMIUM_DAILY_LIMIT == 100

\* 24 * 60 * 60 * 1000 ms, the length of a quota window, in seconds (the
\* clock of the model counts seconds: TLC's integers are 32 bits wide)
Day == 24 * 60 * 60
\* expiryDate.setDate(expiryDate.getDate() + 30)
PremiumPeriod == 30 * Day

----------------------------------------------------------------------------
(* Bounds of the model *)

\* Clock advances, payment confirmations and calls of updateUserRequests
\* in the specifications of the quota ledger.
MaxTicks == 2
MaxPayments == 1
MaxCalls == 3

\* Stored turns of the user and of another user, and the turns saved within
\* the same clock reading as the turn before them.
MaxTurns == 9
MaxOther == 1
MaxSame == 2

\* The parts of one completion stream and the awaited operations that throw
\* during one call of sendToOpenRouterStream.
MaxParts == 3
MaxStreamFaults == 1

\* Calls of checkAndUpdateSubscriptionStatus around one expiry.
MaxChecks == 3

\* Commands and payment confirmations handled one after the other.
MaxCommands == 3

\* The awaited operations that throw, and the days that pass, while the bot
\* handles its updates.
MaxFaults == 1
MaxElapse == 1

\* The amounts by which the clock advances between two steps.
TickSteps == {Day \div 2, PremiumPeriod}

UserId == 1
OtherUserId == 2
Reqs == {"r1", "r2"}

\* An absent date (subscriptionExpiryDate: undefined), an absent username.
NoDate == 0 - 1
NoName == ""

----------------------------------------------------------------------------
(* The users collection.  findOne({userId}) gives the first matching       *)
(* document or null (here: a sequence of length 1 or 0); updateOne changes *)
(* the first matching document and nothing when there is none.             *)

FindOne == IF users = <<>> THEN <<>> ELSE <<users[1]>>

NewUser(name, t) ==
    [subscription |-> "free", dailyRequests |-> 0, lastResetDate |-> t,
     expiry |-> NoDate, username |-> name]

DowngradeTierOnly(doc) == [doc EXCEPT !.subscription = "free"]

\* $set: { subscription: 'free', subscriptionExpiryDate: undefined }
Downgrade(doc) == [doc EXCEPT !.subscription = "free", !.expiry = NoDate]

\* $set: { subscription: 'premium', subscriptionExpiryDate: expiryDate }
Activate(doc, t) ==
    [doc EXCEPT !.subscription = "premium", !.expiry = t + PremiumPeriod]

\* $set: { dailyRequests: 1, lastResetDate: now }
ResetWindow(doc, t) == [doc EXCEPT !.dailyRequests = 1, !.lastResetDate = t]

IncRequestsTwice(doc) == [doc EXCEPT !.dailyRequests = @ + 2]

\* $inc: { dailyRequests: 1 }
IncRequests(doc) == [doc EXCEPT !.dailyRequests = @ + 1]

\* $set: { username }
SetUsername(doc, name) == [doc EXCEPT !.username = name]

ExpiredReversed(doc, t) ==
    doc.subscription = "premium" /\ doc.expiry # NoDate /\ t < doc.expiry

\* user.subscription === 'premium' && user.subscriptionExpiryDate &&
\* now > user.subscriptionExpiryDate
Expired(doc, t) ==
    doc.subscription = "premium" /\ doc.expiry # NoDate /\ t > doc.expiry

ResetDueStrict(doc, t) == t > doc.lastResetDate + Day

\* now >= new Date(user.lastResetDate.getTime() + 24 * 60 * 60 * 1000)
ResetDue(doc, t) == t >= doc.lastResetDate + Day

DailyLimit(doc) ==
    IF doc.subscription = "premium" THEN PREMIUM_DAILY_LIMIT
    ELSE FREE_DAILY_LIMIT

\* user.dailyRequests >= limit
OverLimit(doc) == doc.dailyRequests >= DailyLimit(doc)

DeniedCounted(doc) == [doc EXCEPT !.dailyRequests = @ + 1]

\* return false: a denied request updates nothing
Denied(doc) == doc

----------------------------------------------------------------------------
(* Requests *)

IdleReq ==
    [status |-> "idle", kind |-> "none", stk |-> <<>>, uname |-> NoName,
     user |-> <<>>, can |-> FALSE, limit |-> 0,
     payload |-> "none", eff |-> <<>>,
     prompt |-> <<>>, photo |-> FALSE, big |-> FALSE,
     hist |-> <<>>, model |-> "none", maxTokens |-> 0, messages |-> <<>>,
     chunk |-> <<>>, sent |-> <<>>, usage |-> 0, total |-> 0, nparts |-> 0,
     full |-> <<>>,
     \* history variables: what was read, received and observed so far
     histIdx |-> <<>>, recv |-> <<>>, failed |-> FALSE, lapsed |-> FALSE,
     slapsed |-> FALSE, renewed |-> FALSE,
     \* the operation that threw last, the usage reports of the parts received
     threw |-> "none", usages |-> <<>>,
     \* the collections when the command arrived, the command before it
     pre |-> [users |-> <<>>, payments |-> <<>>, chats |-> <<>>],
     prev |-> "none"]

Top(r) == IF rq[r].stk = <<>> THEN "none" ELSE Head(rq[r].stk)
Running(r) == rq[r].status = "run"

\* An outbound message operation or another effect a request has had.
Eff(op, kind, btn) ==
    [op |-> op, kind |-> kind, btn |-> btn, text |-> <<>>, msg |-> 0]

\* ctx.reply(text) of a streamed chunk: Telegram numbers the new message
SendChunk(q, text) ==
    [op |-> "send", kind |-> "chunk", btn |-> FALSE, text |-> text,
     msg |-> Len(q.eff) + 1]

\* ctx.telegram.editMessageText(chat, sentMessage.message_id, _, text)
EditChunk(q, text) ==
    [op |-> "edit", kind |-> "chunk", btn |-> FALSE, text |-> text,
     msg |-> q.sent[1].id]

\* The labels that mark the end of a try block, and the catch clause of each.
CatchMarks == {"catch_pay", "catch_stream", "catch_text", "catch_photo"}

CatchClauseTwice(mark) == <<"st_apology", "st_apology">>

\* catch (error) { console.error(...); await ctx.reply(...); }
CatchClause(mark) ==
    CASE mark = "catch_stream" -> <<"st_apology">>
      [] mark = "catch_text" -> <<"t_sorry">>
      [] mark = "catch_photo" -> <<"p_sorry">>
      [] mark = "catch_pay" -> <<"pay_sorry">>

\* The label sequences of the functions that are called from several places.
CheckStatus == <<"cs_find">>
CheckStatusCtx == <<"csx_find">>
GetUserProfileUnchecked == <<"gp_find">>

\* getUserProfile: await checkAndUpdateSubscriptionStatus(userId), findOne
GetUserProfile == CheckStatus \o <<"gp_find">>
GetUserProfileNamed == CheckStatus \o <<"gpn_find">>
UpdateUserRequests == CheckStatus \o GetUserProfile \o <<"uur_decide">>
SendToOpenRouterStream ==
    GetUserProfile \o <<"st_hist", "st_open", "st_next", "catch_stream">>

TextNoReturn(q) ==
    IF q.can THEN <<"t_save">> \o SendToOpenRouterStream
    ELSE GetUserProfileNamed \o <<"t_deny", "t_save">>
             \o SendToOpenRouterStream

\* bot.on(message('text')): if (!canMakeRequest) { ...; return; } ...
TextBranch(q) ==
    IF q.can THEN <<"t_save">> \o SendToOpenRouterStream
    ELSE GetUserProfileNamed \o <<"t_deny">>

\* bot.on(message('photo')): the premium check and the size check
PhotoGate(q) ==
    IF q.user[1].subscription # "premium" THEN <<"p_reply">>
    ELSE IF q.big THEN <<"p_reply">>
    ELSE <<"csx_find">> \o UpdateUserRequests
             \o <<"p_branch", "catch_photo">>

\* bot.on(message('photo')): the quota check
PhotoBranch(q) ==
    IF q.can THEN <<"p_file", "p_save">> \o SendToOpenRouterStream
    ELSE <<"p_reply">>

\* What follows a completed step: the end of a try block is left, a branch
\* of the handler that awaits nothing is taken, the handler returns.
RECURSIVE Settle(_)
CancelAlways(q) == <<"can_cancel">>

\* if (user.subscription !== 'premium') { await ctx.reply(...); return; }
CancelBranch(q) ==
    IF q.user[1].subscription # "premium" THEN <<"can_none">>
    ELSE <<"can_cancel">>

Settle(q) ==
    IF q.stk = <<>> THEN [q EXCEPT !.status = "done"]
    ELSE LET h == Head(q.stk)
             t == Tail(q.stk)
         IN  CASE h \in CatchMarks -> Settle([q EXCEPT !.stk = t])
               [] h = "t_branch" -> [q EXCEPT !.stk = TextBranch(q) \o t]
               [] h = "p_gate" -> [q EXCEPT !.stk = PhotoGate(q) \o t]
               [] h = "p_branch" -> [q EXCEPT !.stk = PhotoBranch(q) \o t]
               [] h = "can_branch" -> [q EXCEPT !.stk = CancelBranch(q) \o t]
               [] OTHER -> q

\* Request r goes on with the locals and the stack of q.
Goto(r, q) == rq' = [rq EXCEPT ![r] = Settle(q)]
Pop(q) == [q EXCEPT !.stk = Tail(@)]
Jump(q, labels) == [q EXCEPT !.stk = labels \o Tail(@)]
Emit(q, e) == [q EXCEPT !.eff = Append(@, e)]


----------------------------------------------------------------------------
(* Text.  A string is the sequence of the fragments it was put together    *)
(* from; a fragment has a length and may hold a newline.  Concatenation is *)
(* \o and the empty string is <<>>.                                        *)

Fragment(n, len, nl) == [n |-> n, len |-> len, nl |-> nl]

RECURSIVE TextLen(_)
TextLen(t) == IF t = <<>> THEN 0 ELSE Head(t).len + TextLen(Tail(t))

HasNewline(t) == \E i \in 1..Len(t) : t[i].nl

estimateTokensFloor(len) == len \div 4

\* Math.ceil(text.length / 4)
estimateTokens(len) == (len + 3) \div 4

----------------------------------------------------------------------------
(* The chats collection: saveChatMessage, getChatHistory, resetUserContext *)

Turn(uid, role, content, t) ==
    [userId |-> uid, role |-> role, content |-> content, timestamp |-> t]

\* chats.insertOne({ userId, role, content, timestamp: new Date() })
saveChatMessage(uid, role, content) ==
    Append(chats, Turn(uid, role, content, now))

\* chats.find({ userId }): the positions of the user's turns
Matching(uid) == {i \in 1..Len(chats) : chats[i].userId = uid}

\* .sort({ timestamp: -1 }).limit(n): every order the sort may give; turns
\* with the same timestamp come in any order.
RECURSIVE SortLimit(_, _)
SortLimit(S, n) ==
    IF S = {} \/ n = 0 THEN {<<>>}
    ELSE LET newest == {i \in S : \A j \in S :
                            chats[j].timestamp <= chats[i].timestamp}
         IN  UNION { {<<i>> \o rest : rest \in SortLimit(S \ {i}, n - 1)} :
                     i \in newest }

Unreversed(q) == q

\* .reverse()
Reverse(q) == [i \in 1..Len(q) |-> q[Len(q) + 1 - i]]

\* The positions of the turns getChatHistory may return, in its order.
RecentTurns(uid) ==
    {Reverse(q) : q \in SortLimit(Matching(uid), MAX_CONTEXT_MESSAGES)}

\* history.map(msg => ({ role: msg.role, content: msg.content }))
Messages(idx) ==
    [i \in 1..Len(idx) |-> [role |-> chats[idx[i]].role,
                            content |-> chats[idx[i]].content]]

resetUserContextAll(uid) == <<>>

\* chats.deleteMany({ userId })
resetUserContext(uid) == SelectSeq(chats, LAMBDA d : d.userId # uid)

\* The turns of the users other than uid, in stored order.
OthersTurns(c, uid) == SelectSeq(c, LAMBDA d : d.userId # uid)

----------------------------------------------------------------------------
(* checkAndUpdateSubscriptionStatus(userId, ctx?) *)

CsFind(r) ==
    /\ Running(r) /\ Top(r) \in {"cs_find", "csx_find"}
    /\ LET user == FindOne
       IN  IF user # <<>> /\ Expired(user[1], now)
           THEN Goto(r, Jump(rq[r], <<IF Top(r) = "csx_find" THEN "csx_upd"
                                       ELSE "cs_upd">>))
           ELSE Goto(r, Pop(rq[r]))
    /\ UNCHANGED <<now, ticks, users, chats, stats, invoices, payments,
                   slots, budget, faults, provider, win>>

CsUpd(r) ==
    /\ Running(r) /\ Top(r) \in {"cs_upd", "csx_upd"}
    /\ users' = IF users = <<>> THEN users
                ELSE [users EXCEPT ![1] = Downgrade(@)]
    /\ IF Top(r) = "csx_upd" THEN Goto(r, Jump(rq[r], <<"csx_notify">>))
       ELSE Goto(r, Pop(rq[r]))
    /\ UNCHANGED <<now, ticks, chats, stats, invoices, payments, slots,
                   budget, faults, provider, win>>

CsNotify(r) ==
    /\ Running(r) /\ Top(r) = "csx_notify"
    /\ Goto(r, Pop(Emit(rq[r], Eff("send", "expired", TRUE))))
    /\ UNCHANGED <<now, ticks, users, chats, stats, invoices, payments,
                   slots, budget, faults, provider, win>>

----------------------------------------------------------------------------
(* getUserProfile(userId, username?) *)

GpFind(r) ==
    /\ Running(r) /\ Top(r) \in {"gp_find", "gpn_find"}
    /\ LET u == FindOne
           name == IF Top(r) = "gpn_find" THEN rq[r].uname ELSE NoName
       IN  IF u = <<>>
           THEN Goto(r, Jump(rq[r], <<IF Top(r) = "gpn_find"
                                       THEN "gpn_insert" ELSE "gp_insert">>))
           ELSE IF name # NoName /\ name # u[1].username
           THEN Goto(r, Jump([rq[r] EXCEPT !.user = u], <<"gpn_name">>))
           ELSE Goto(r, Pop([rq[r] EXCEPT !.user = u]))
    /\ UNCHANGED <<now, ticks, users, chats, stats, invoices, payments,
                   slots, budget, faults, provider, win>>

GpInsert(r) ==
    /\ Running(r) /\ Top(r) \in {"gp_insert", "gpn_insert"}
    /\ LET name == IF Top(r) = "gpn_insert" THEN rq[r].uname ELSE NoName
           doc == NewUser(name, now)
       IN  /\ users' = Append(users, doc)
           /\ Goto(r, Pop([rq[r] EXCEPT !.user = <<doc>>]))
    /\ win' = 0
    /\ UNCHANGED <<now, ticks, chats, stats, invoices, payments, slots,
                   budget, faults, provider>>

GpName(r) ==
    /\ Running(r) /\ Top(r) = "gpn_name"
    /\ users' = IF users = <<>> THEN users
                ELSE [users EXCEPT ![1] = SetUsername(@, rq[r].uname)]
    /\ Goto(r, Pop([rq[r] EXCEPT
                        !.user = <<SetUsername(@[1], rq[r].uname)>>]))
    /\ UNCHANGED <<now, ticks, chats, stats, invoices, payments, slots,
                   budget, faults, provider, win>>

----------------------------------------------------------------------------
(* updateUserRequests(userId): the quota decision and its update *)

UurDecide(r) ==
    /\ Running(r) /\ Top(r) = "uur_decide"
    /\ LET user == rq[r].user[1]
       IN  IF ResetDue(user, now)
           THEN /\ users' = [users EXCEPT ![1] = ResetWindow(@, now)]
                /\ win' = 1
                /\ Goto(r, Pop([rq[r] EXCEPT !.can = TRUE]))
           ELSE IF OverLimit(user)
           THEN /\ users' = [users EXCEPT ![1] = Denied(@)]
                /\ UNCHANGED win
                /\ Goto(r, Pop([rq[r] EXCEPT !.can = FALSE,
                                             !.limit = DailyLimit(user)]))
           ELSE /\ users' = [users EXCEPT ![1] = IncRequests(@)]
                /\ win' = win + 1
                /\ Goto(r, Pop([rq[r] EXCEPT !.can = TRUE,
                                             !.limit = DailyLimit(user)]))
    /\ UNCHANGED <<now, ticks, chats, stats, invoices, payments, slots,
                   budget, faults, provider>>

----------------------------------------------------------------------------
(* bot.on('successful_payment') *)

InvoiceAssumed(payload) == TRUE

\* invoices.findOne({ payload: payment.invoice_payload }) finds a document
InvoiceStored(payload) == payload \in invoices

PayFind(r) ==
    /\ Running(r) /\ Top(r) = "pay_find"
    /\ IF InvoiceStored(rq[r].payload)
       THEN Goto(r, Jump(rq[r], <<"pay_create">>))
       ELSE Goto(r, Jump(rq[r], <<"pay_unknown">>))
    /\ UNCHANGED <<now, ticks, users, chats, stats, invoices, payments,
                   slots, budget, faults, provider, win>>

PayUnknown(r) ==
    /\ Running(r) /\ Top(r) = "pay_unknown"
    /\ Goto(r, Pop(Emit(rq[r], Eff("send", "pay_support", FALSE))))
    /\ UNCHANGED <<now, ticks, users, chats, stats, invoices, payments,
                   slots, budget, faults, provider, win>>

PayCreate(r) ==
    /\ Running(r) /\ Top(r) = "pay_create"
    /\ payments' = Append(payments, [invoice |-> rq[r].payload,
                                     user |-> UserId,
                                     status |-> "completed"])
    /\ Goto(r, Jump(rq[r], <<"pay_activate">>))
    /\ UNCHANGED <<now, ticks, users, chats, stats, invoices, slots,
                   budget, faults, provider, win>>

PayActivate(r) ==
    /\ Running(r) /\ Top(r) = "pay_activate"
    /\ users' = IF users = <<>> THEN users
                ELSE [users EXCEPT ![1] = Activate(@, now)]
    /\ rq' = [x \in Reqs |->
                IF x = r THEN Settle(Jump(rq[r], <<"pay_thanks">>))
                ELSE [rq[x] EXCEPT !.renewed = @ \/ Running(x)]]
    /\ UNCHANGED <<now, ticks, chats, stats, invoices, payments, slots,
                   budget, faults, provider, win>>

PayThanks(r) ==
    /\ Running(r) /\ Top(r) = "pay_thanks"
    /\ Goto(r, Pop(Emit(rq[r], Eff("send", "pay_thanks", FALSE))))
    /\ UNCHANGED <<now, ticks, users, chats, stats, invoices, payments,
                   slots, budget, faults, provider, win>>

----------------------------------------------------------------------------
(* bot.command('cancel_subscription') and cancelSubscription(userId) *)

CancelNone(r) ==
    /\ Running(r) /\ Top(r) = "can_none"
    /\ Goto(r, Pop(Emit(rq[r], Eff("send", "cancel_none", FALSE))))
    /\ UNCHANGED <<now, ticks, users, chats, stats, invoices, payments,
                   slots, budget, faults, provider, win>>

\* result.modifiedCount > 0: the stored document was changed by the update
CancelSubscription(r) ==
    /\ Running(r) /\ Top(r) = "can_cancel"
    /\ users' = IF users = <<>> THEN users
                ELSE [users EXCEPT ![1] = Downgrade(@)]
    /\ Goto(r, Jump([rq[r] EXCEPT !.can = (users' # users)],
                    <<"can_reply">>))
    /\ UNCHANGED <<now, ticks, chats, stats, invoices, payments, slots,
                   budget, faults, provider, win>>

CancelReply(r) ==
    /\ Running(r) /\ Top(r) = "can_reply"
    /\ Goto(r, Pop(Emit(rq[r], Eff("send", IF rq[r].can THEN "cancel_done"
                                           ELSE "cancel_error", FALSE))))
    /\ UNCHANGED <<now, ticks, users, chats, stats, invoices, payments,
                   slots, budget, faults, provider, win>>


----------------------------------------------------------------------------
(* bot.command('reset') *)

ResetCommand == <<"reset_delete", "reset_reply">>

\* await resetUserContext(userId)
ResetDelete(r) ==
    /\ Running(r) /\ Top(r) = "reset_delete"
    /\ chats' = resetUserContext(UserId)
    /\ Goto(r, Pop(rq[r]))
    /\ UNCHANGED <<now, ticks, users, stats, invoices, payments, slots,
                   budget, faults, provider, win>>

ResetReply(r) ==
    /\ Running(r) /\ Top(r) = "reset_reply"
    /\ Goto(r, Pop(Emit(rq[r], Eff("send", "reset_done", FALSE))))
    /\ UNCHANGED <<now, ticks, users, chats, stats, invoices, payments,
                   slots, budget, faults, provider, win>>

----------------------------------------------------------------------------
(* getChatHistory(userId), as awaited by sendToOpenRouterStream *)

StHist(r) ==
    /\ Running(r) /\ Top(r) = "st_hist"
    /\ \E idx \in RecentTurns(UserId) :
         Goto(r, Pop([rq[r] EXCEPT !.hist = Messages(idx),
                                   !.histIdx = idx]))
    /\ UNCHANGED <<now, ticks, users, chats, stats, invoices, payments,
                   slots, budget, faults, provider, win>>


----------------------------------------------------------------------------
(* sendToOpenRouterStream(userId, prompt, ctx) *)

\* user.subscription === 'premium' ? 'gpt-4o' : 'gpt-4o-mini'
ModelOf(user) ==
    IF user.subscription = "premium" THEN "gpt-4o" ELSE "gpt-4o-mini"

\* max_tokens: user.subscription === 'premium' ? 4000 : 2000
MaxTokensOf(user) == IF user.subscription = "premium" THEN 4000 ELSE 2000

FlushDueLate(chunk, content) ==
    TextLen(chunk) > STREAM_CHUNK_SIZE \/ HasNewline(content)

\* responseChunk.length >= STREAM_CHUNK_SIZE || content.includes('\n')
FlushDue(chunk, content) ==
    TextLen(chunk) >= STREAM_CHUNK_SIZE \/ HasNewline(content)

FullResponseSentOnly(sent, chunk) ==
    IF sent # <<>> THEN sent[1].text ELSE chunk

\* sentMessage ? sentMessage.text + responseChunk : responseChunk
FullResponse(sent, chunk) ==
    IF sent # <<>> THEN sent[1].text \o chunk ELSE chunk

\* if (part.usage?.total_tokens) totalResponseTokens = part.usage.total_tokens
Reported(usage, total) == IF usage # 0 THEN usage ELSE total

\* if (totalResponseTokens === 0) totalResponseTokens = estimateTokens(full)
OutputTokens(total, full) ==
    IF total = 0 THEN estimateTokens(TextLen(full)) ELSE total

\* estimateTokens(prompt as string): the length of the string, or of the
\* two-element array of content parts
InputTokens(q) ==
    estimateTokens(IF q.photo THEN 2 ELSE TextLen(q.prompt))

StOpen(r) ==
    /\ Running(r) /\ Top(r) = "st_open"
    /\ LET user == rq[r].user[1]
           q == [rq[r] EXCEPT
                   !.model = ModelOf(user),
                   !.maxTokens = MaxTokensOf(user),
                   !.messages = rq[r].hist
                       \o <<[role |-> "user", content |-> rq[r].prompt]>>,
                   !.hist = <<>>, !.histIdx = <<>>]
       IN  Goto(r, Pop(Emit(q, Eff("open", ModelOf(user), FALSE))))
    /\ UNCHANGED <<now, ticks, users, chats, stats, invoices, payments,
                   slots, budget, faults, provider, win>>

\* for await (const part of stream): the next part, or the end of the stream
StNext(r) ==
    /\ Running(r) /\ Top(r) = "st_next"
    /\ \/ /\ rq[r].nparts < provider.max
          /\ \E p \in provider.parts :
               LET content == IF p.len = 0 THEN <<>>
                              ELSE <<Fragment(rq[r].nparts + 1, p.len, p.nl)>>
                   chunk == rq[r].chunk \o content
                   q == [rq[r] EXCEPT !.chunk = chunk,
                                      !.nparts = @ + 1,
                                      !.recv = @ \o content,
                                      !.usages = Append(@, p.usage)]
               IN  IF FlushDue(chunk, content)
                   THEN Goto(r, [q EXCEPT !.usage = p.usage,
                                          !.stk = <<"st_flush">> \o @])
                   ELSE Goto(r, [q EXCEPT
                                   !.total = Reported(p.usage, @)])
       \/ Goto(r, Jump(rq[r],
                       IF TextLen(rq[r].chunk) > 0
                       THEN <<"st_final", "st_save", "st_usage">>
                       ELSE <<"st_save", "st_usage">>))
    /\ UNCHANGED <<now, ticks, users, chats, stats, invoices, payments,
                   slots, budget, faults, provider, win>>

\* the flush inside the loop
StFlush(r) ==
    /\ Running(r) /\ Top(r) = "st_flush"
    /\ LET q == rq[r]
           text == IF q.sent # <<>> THEN q.sent[1].text \o q.chunk
                   ELSE q.chunk
           op == IF q.sent # <<>> THEN EditChunk(q, text)
                 ELSE SendChunk(q, text)
       IN  Goto(r, Pop(Emit([q EXCEPT
                               !.sent = <<[id |-> op.msg, text |-> text]>>,
                               !.chunk = <<>>,
                               !.total = Reported(q.usage, @),
                               !.usage = 0], op)))
    /\ UNCHANGED <<now, ticks, users, chats, stats, invoices, payments,
                   slots, budget, faults, provider, win>>

\* the flush after the loop: if (responseChunk) { ... }
StFinal(r) ==
    /\ Running(r) /\ Top(r) = "st_final"
    /\ LET q == rq[r]
       IN  Goto(r, Pop(Emit(q, IF q.sent # <<>>
                               THEN EditChunk(q, q.sent[1].text \o q.chunk)
                               ELSE SendChunk(q, q.chunk))))
    /\ UNCHANGED <<now, ticks, users, chats, stats, invoices, payments,
                   slots, budget, faults, provider, win>>

StSave(r) ==
    /\ Running(r) /\ Top(r) = "st_save"
    /\ LET full == FullResponse(rq[r].sent, rq[r].chunk)
       IN  /\ chats' = saveChatMessage(UserId, "assistant", full)
           /\ Goto(r, Pop(Emit([rq[r] EXCEPT !.full = full],
                               Eff("save", "assistant", FALSE))))
    /\ UNCHANGED <<now, ticks, users, stats, invoices, payments, slots,
                   budget, faults, provider, win>>

\* updateTokenUsage: $inc with upsert
StUsage(r) ==
    /\ Running(r) /\ Top(r) = "st_usage"
    /\ LET out == OutputTokens(rq[r].total, rq[r].full)
           old == IF stats = <<>> THEN [input |-> 0, output |-> 0]
                  ELSE stats[1]
       IN  /\ stats' = <<[input |-> old.input + InputTokens(rq[r]),
                          output |-> old.output + out]>>
           /\ Goto(r, Pop(Emit([rq[r] EXCEPT !.total = out],
                               Eff("usage", "tokens", FALSE))))
    /\ UNCHANGED <<now, ticks, users, chats, invoices, payments, slots,
                   budget, faults, provider, win>>

----------------------------------------------------------------------------
(* bot.on(message('text')) and bot.on(message('photo')) *)

\* History: the stored profile is premium and its expiry date has passed.
Lapsed ==
    /\ users # <<>>
    /\ users[1].subscription = "premium"
    /\ users[1].expiry # NoDate
    /\ users[1].expiry < now

\* History: sendToOpenRouterStream starts once the user turn is saved.
EnterStream(q) == [q EXCEPT !.slapsed = Lapsed]

TextSave(r) ==
    /\ Running(r) /\ Top(r) = "t_save"
    /\ chats' = saveChatMessage(UserId, "user", rq[r].prompt)
    /\ Goto(r, Pop(Emit(EnterStream(rq[r]), Eff("save", "user", FALSE))))
    /\ UNCHANGED <<now, ticks, users, stats, invoices, payments, slots,
                   budget, faults, provider, win>>

TextDeny(r) ==
    /\ Running(r) /\ Top(r) = "t_deny"
    /\ Goto(r, Pop(Emit(rq[r],
                        IF rq[r].user[1].subscription = "free"
                        THEN Eff("send", "limit_free", TRUE)
                        ELSE Eff("send", "limit", FALSE))))
    /\ UNCHANGED <<now, ticks, users, chats, stats, invoices, payments,
                   slots, budget, faults, provider, win>>

\* The replies that end the photo handler early.
PhotoReply(r) ==
    /\ Running(r) /\ Top(r) = "p_reply"
    /\ Goto(r, Pop(Emit(rq[r],
                        IF rq[r].user[1].subscription # "premium"
                        THEN Eff("send", "premium_only", TRUE)
                        ELSE IF rq[r].big
                        THEN Eff("send", "too_big", FALSE)
                        ELSE Eff("send", "limit", FALSE))))
    /\ UNCHANGED <<now, ticks, users, chats, stats, invoices, payments,
                   slots, budget, faults, provider, win>>

\* ctx.telegram.getFile(photo.file_id)
PhotoFile(r) ==
    /\ Running(r) /\ Top(r) = "p_file"
    /\ Goto(r, Pop(rq[r]))
    /\ UNCHANGED <<now, ticks, users, chats, stats, invoices, payments,
                   slots, budget, faults, provider, win>>

\* caption ? caption : "было отправлено фото" (20 characters)
PhotoSave(r) ==
    /\ Running(r) /\ Top(r) = "p_save"
    /\ chats' = saveChatMessage(UserId, "user",
                    IF rq[r].prompt # <<>> THEN rq[r].prompt
                    ELSE <<Fragment(0, 20, FALSE)>>)
    /\ Goto(r, Pop(Emit(EnterStream(rq[r]), Eff("save", "user", FALSE))))
    /\ UNCHANGED <<now, ticks, users, stats, invoices, payments, slots,
                   budget, faults, provider, win>>

----------------------------------------------------------------------------
(* Failures.  An awaited operation throws instead of taking effect; the    *)
(* nearest enclosing catch clause runs, or the handler ends uncaught.      *)

RECURSIVE Unwind(_)
Unwind(stk) ==
    IF stk = <<>> THEN <<>>
    ELSE IF Head(stk) \in CatchMarks
    THEN CatchClause(Head(stk)) \o Tail(stk)
    ELSE Unwind(Tail(stk))

Fail(r) ==
    /\ Running(r) /\ faults > 0
    /\ faults' = faults - 1
    /\ LET stk == Unwind(rq[r].stk)
           q == [rq[r] EXCEPT !.failed = TRUE, !.threw = Top(r),
                              !.stk = stk]
       IN  IF stk = <<>>
           THEN rq' = [rq EXCEPT ![r] = [q EXCEPT !.status = "crashed"]]
           ELSE Goto(r, q)
    /\ UNCHANGED <<now, ticks, users, chats, stats, invoices, payments,
                   slots, budget, provider, win>>

\* The reply of a catch clause.
Apologize(r) ==
    /\ Running(r) /\ Top(r) \in {"st_apology", "t_sorry", "p_sorry",
                                 "pay_sorry"}
    /\ Goto(r, Pop(Emit(rq[r], Eff("send", Top(r), FALSE))))
    /\ UNCHANGED <<now, ticks, users, chats, stats, invoices, payments,
                   slots, budget, faults, provider, win>>

----------------------------------------------------------------------------
(* Inbound events and the clock *)

Free(r) == r \in slots /\ ~Running(r)

Fresh(r, kind, labels) ==
    [IdleReq EXCEPT !.status = "run", !.kind = kind, !.stk = labels,
                    !.uname = rq[r].uname, !.lapsed = Lapsed]

Begin(r, kind, labels) == Goto(r, Fresh(r, kind, labels))

\* A call of updateUserRequests(userId) on its own.
CallUpdateUserRequests(r) ==
    /\ Free(r)
    /\ Begin(r, "quota", UpdateUserRequests)
    /\ UNCHANGED <<now, ticks, users, chats, stats, invoices, payments,
                   slots, budget, faults, provider, win>>

StartPayment(r) ==
    /\ Free(r) /\ budget > 0
    /\ budget' = budget - 1
    /\ \E p \in {"inv1", "unknown"} :
         Goto(r, [Fresh(r, "payment", <<"pay_find", "catch_pay">>)
                      EXCEPT !.payload = p])
    /\ UNCHANGED <<now, ticks, users, chats, stats, invoices, payments,
                   slots, faults, provider, win>>

\* ctx.message.text, ctx.from.username
StartText(r) ==
    /\ Free(r) /\ budget > 0
    /\ budget' = budget - 1
    /\ Goto(r, [Fresh(r, "text", <<"csx_find">> \o UpdateUserRequests
                                     \o <<"t_branch", "catch_text">>)
                 EXCEPT !.uname = "alice",
                        !.prompt = <<Fragment(0, 6, FALSE)>>])
    /\ UNCHANGED <<now, ticks, users, chats, stats, invoices, payments,
                   slots, faults, provider, win>>

\* ctx.message.photo, ctx.message.caption, ctx.from.username
StartPhoto(r) ==
    /\ Free(r) /\ budget > 0
    /\ budget' = budget - 1
    /\ \E big \in BOOLEAN, caption \in {<<>>, <<Fragment(0, 6, FALSE)>>} :
         Goto(r, [Fresh(r, "photo", GetUserProfileNamed \o <<"p_gate">>)
                  EXCEPT !.uname = "alice", !.photo = TRUE, !.big = big,
                         !.prompt = caption])
    /\ UNCHANGED <<now, ticks, users, chats, stats, invoices, payments,
                   slots, faults, provider, win>>

\* A call of sendToOpenRouterStream(userId, prompt, ctx) on its own.
CallSendToOpenRouterStream(r) ==
    /\ Free(r) /\ budget > 0
    /\ budget' = budget - 1
    /\ Goto(r, EnterStream([Fresh(r, "stream", SendToOpenRouterStream)
                            EXCEPT !.prompt = <<Fragment(0, 6, FALSE)>>]))
    /\ UNCHANGED <<now, ticks, users, chats, stats, invoices, payments,
                   slots, faults, provider, win>>

StartCancel(r) ==
    /\ Free(r) /\ budget > 0
    /\ budget' = budget - 1
    /\ Begin(r, "cancel", GetUserProfile \o <<"can_branch">>)
    /\ UNCHANGED <<now, ticks, users, chats, stats, invoices, payments,
                   slots, faults, provider, win>>

Tick ==
    /\ ticks < MaxTicks
    /\ ticks' = ticks + 1
    /\ \E d \in TickSteps : now' = now + d
    /\ UNCHANGED <<users, chats, stats, invoices, payments, rq, slots,
                   budget, faults, provider, win>>

----------------------------------------------------------------------------
(* Specifications *)

InitDb ==
    /\ now = 0 /\ ticks = 0
    /\ users = <<>> /\ chats = <<>> /\ stats = <<>>
    /\ invoices = {"inv1"} /\ payments = <<>>
    /\ win = 0 /\ faults = 0
    /\ provider = [parts |-> {}, max |-> 0]

\* updateUserRequests under sequential handling: one request at a time, on
\* a new database, with payment confirmations changing the tier.
QuotaInit ==
    /\ InitDb
    /\ slots = {"r1"}
    /\ budget = MaxPayments
    /\ rq = [r \in Reqs |-> IdleReq]

QuotaNext ==
    \E r \in Reqs :
        \/ CallUpdateUserRequests(r)
        \/ StartPayment(r)
        \/ CsFind(r) \/ CsUpd(r)
        \/ GpFind(r) \/ GpInsert(r)
        \/ UurDecide(r)
        \/ PayFind(r) \/ PayUnknown(r) \/ PayCreate(r) \/ PayActivate(r)
        \/ PayThanks(r)
        \/ Tick

QuotaSpec == QuotaInit /\ [][QuotaNext]_vars

\* updateUserRequests under concurrent calls for the same user, from a
\* database that earlier requests have left: no profile yet, or a free
\* profile one request below its limit.  No event changes the tier here.
StoredProfiles ==
    { <<>>,
      <<[NewUser(NoName, 0) EXCEPT !.dailyRequests = FREE_DAILY_LIMIT - 1]>> }

DeliverQuotaCall(r) ==
    /\ Free(r) /\ budget > 0
    /\ budget' = budget - 1
    /\ Begin(r, "quota", UpdateUserRequests)
    /\ UNCHANGED <<now, ticks, users, chats, stats, invoices, payments,
                   slots, faults, provider, win>>

RaceInit ==
    /\ now = 0 /\ ticks = 0
    /\ users \in StoredProfiles
    /\ win = IF users = <<>> THEN 0 ELSE users[1].dailyRequests
    /\ chats = <<>> /\ stats = <<>>
    /\ invoices = {"inv1"} /\ payments = <<>>
    /\ faults = 0
    /\ provider = [parts |-> {}, max |-> 0]
    /\ slots = Reqs
    /\ budget = MaxCalls
    /\ rq = [r \in Reqs |-> IdleReq]

RaceNext ==
    \E r \in Reqs :
        \/ DeliverQuotaCall(r)
        \/ CsFind(r)
        \/ GpFind(r) \/ GpInsert(r)
        \/ UurDecide(r)
        \/ Tick

RaceSpec == RaceInit /\ [][RaceNext]_vars


\* getChatHistory over the histories that saveChatMessage builds: turns of
\* the user and of another user, several of them within one clock reading.
\* The history is built first and read afterwards: getChatHistory is one
\* query, so what it returns depends only on the turns stored at that moment.
HistInit ==
    /\ InitDb
    /\ slots = {"r1"}
    /\ budget = 0
    /\ rq = [r \in Reqs |-> IdleReq]

TurnsOf(uid) == Cardinality(Matching(uid))

\* The role of the next turn of a conversation: user, then assistant.
NextRole(uid) ==
    IF TurnsOf(uid) % 2 = 0 THEN "user" ELSE "assistant"

CallSaveChatMessage ==
    /\ \A r \in Reqs : rq[r].status = "idle"
    /\ \E uid \in {UserId, OtherUserId} :
         /\ uid = UserId => TurnsOf(UserId) < MaxTurns
         /\ uid = OtherUserId => TurnsOf(OtherUserId) < MaxOther
         /\ chats' = saveChatMessage(uid, NextRole(uid),
                                     <<Fragment(Len(chats) + 1, 1, FALSE)>>)
    /\ (chats # <<>> /\ chats[Len(chats)].timestamp = now) =>
           Cardinality({i \in 2..Len(chats) :
                          chats[i].timestamp = chats[i - 1].timestamp})
               < MaxSame
    /\ UNCHANGED <<now, ticks, users, stats, invoices, payments, rq, slots,
                   budget, faults, provider, win>>

\* The clock reaches its next reading after a turn was saved.
TickOne ==
    /\ \A r \in Reqs : rq[r].status = "idle"
    /\ chats # <<>> /\ chats[Len(chats)].timestamp = now
    /\ now' = now + 1
    /\ UNCHANGED <<ticks, users, chats, stats, invoices, payments, rq,
                   slots, budget, faults, provider, win>>

CallGetChatHistory(r) ==
    /\ Free(r)
    /\ Begin(r, "history", <<"st_hist">>)
    /\ UNCHANGED <<now, ticks, users, chats, stats, invoices, payments,
                   slots, budget, faults, provider, win>>

HistNext ==
    \/ CallSaveChatMessage
    \/ TickOne
    \/ \E r \in Reqs : CallGetChatHistory(r) \/ StHist(r)

HistSpec == HistInit /\ [][HistNext]_vars

\* The parts a completion stream delivers: text of several lengths, a line
\* break, a part with only a usage report, and an empty part.
StreamParts ==
    {[len |-> 50, nl |-> FALSE, usage |-> 0],
     [len |-> 60, nl |-> FALSE, usage |-> 0],
     [len |-> 100, nl |-> FALSE, usage |-> 0],
     [len |-> 100, nl |-> FALSE, usage |-> 9],
     [len |-> 10, nl |-> TRUE, usage |-> 0],
     [len |-> 0, nl |-> FALSE, usage |-> 7],
     [len |-> 0, nl |-> FALSE, usage |-> 0]}

\* sendToOpenRouterStream on its own: one call, every stream of up to
\* MaxParts parts, and up to MaxStreamFaults awaited operations that throw.
StreamInit ==
    /\ now = 0 /\ ticks = 0
    /\ users \in {<<>>, <<NewUser("alice", 0)>>}
    /\ chats = <<>> /\ stats = <<>>
    /\ invoices = {"inv1"} /\ payments = <<>>
    /\ win = 0
    /\ faults = MaxStreamFaults
    /\ provider = [parts |-> StreamParts, max |-> MaxParts]
    /\ slots = {"r1"}
    /\ budget = 1
    /\ rq = [r \in Reqs |-> IdleReq]

StreamNext ==
    \E r \in Reqs :
        \/ CallSendToOpenRouterStream(r)
        \/ CsFind(r) \/ GpFind(r) \/ GpInsert(r)
        \/ StHist(r) \/ StOpen(r) \/ StNext(r) \/ StFlush(r) \/ StFinal(r)
        \/ StSave(r) \/ StUsage(r)
        \/ Fail(r) \/ Apologize(r)

StreamSpec == StreamInit /\ [][StreamNext]_vars

\* The profiles the bot is started on: none, a free user at the daily
\* limit, and a premium user whose paid period ends at Day \div 2.
Profiles ==
    {<<>>,
     <<[NewUser(NoName, 0) EXCEPT !.dailyRequests = FREE_DAILY_LIMIT]>>,
     <<[NewUser(NoName, 0) EXCEPT !.subscription = "premium",
                                  !.expiry = Day \div 2]>>}

\* A day passes.
Elapse ==
    /\ ticks < MaxElapse
    /\ ticks' = ticks + 1
    /\ now' = now + Day
    /\ UNCHANGED <<users, chats, stats, invoices, payments, rq, slots,
                   budget, faults, provider, win>>

\* A call of checkAndUpdateSubscriptionStatus on its own, with or without a
\* reply channel.
CallCheckStatus(r) ==
    /\ Free(r) /\ budget > 0
    /\ budget' = budget - 1
    /\ \E labels \in {CheckStatus, CheckStatusCtx} :
         Begin(r, "check", labels)
    /\ UNCHANGED <<now, ticks, users, chats, stats, invoices, payments,
                   slots, faults, provider, win>>

\* checkAndUpdateSubscriptionStatus around the end of a paid period: calls
\* in both slots on a premium profile that expires at Day \div 2.
ExpiryInit ==
    /\ now = 0 /\ ticks = 0
    /\ users = <<[NewUser(NoName, 0) EXCEPT !.subscription = "premium",
                                            !.expiry = Day \div 2]>>
    /\ chats = <<>> /\ stats = <<>>
    /\ invoices = {"inv1"} /\ payments = <<>>
    /\ win = 0 /\ faults = 0
    /\ provider = [parts |-> {}, max |-> 0]
    /\ slots = Reqs
    /\ budget = MaxChecks
    /\ rq = [r \in Reqs |-> IdleReq]

ExpiryNext ==
    \/ Elapse
    \/ \E r \in Reqs :
        \/ CallCheckStatus(r)
        \/ CsFind(r) \/ CsUpd(r) \/ CsNotify(r)

ExpirySpec == ExpiryInit /\ [][ExpiryNext]_vars

\* The collections as a command finds them.
Snapshot == [users |-> users, payments |-> payments, chats |-> chats]

\* The handler of request r has returned and nothing it awaited threw.
Returned(r) == rq[r].status = "done" /\ ~rq[r].failed

Command(r, kind, labels, payload) ==
    [Fresh(r, kind, labels)
        EXCEPT !.payload = payload, !.pre = Snapshot,
               !.prev = IF Returned(r) THEN rq[r].kind ELSE "none"]

\* /cancel_subscription, /reset or a payment confirmation arrives.
DeliverCommand(r) ==
    /\ Free(r) /\ budget > 0
    /\ budget' = budget - 1
    /\ \/ Goto(r, Command(r, "cancel", GetUserProfile \o <<"can_branch">>,
                          "none"))
       \/ Goto(r, Command(r, "reset", ResetCommand, "none"))
       \/ \E p \in {"inv1", "unknown"} :
            Goto(r, Command(r, "payment", <<"pay_find", "catch_pay">>, p))
    /\ UNCHANGED <<now, ticks, users, chats, stats, invoices, payments,
                   slots, faults, provider, win>>

\* The histories the commands are run on: none, and one where the turns of
\* the user surround a turn of another user.
Histories ==
    {<<>>,
     <<Turn(UserId, "user", <<Fragment(0, 6, FALSE)>>, 0),
       Turn(OtherUserId, "user", <<Fragment(0, 6, FALSE)>>, 0),
       Turn(UserId, "assistant", <<Fragment(1, 60, FALSE)>>, 0)>>}

\* The commands and payment confirmations of one user, handled one after
\* the other, with days passing and awaited operations that throw.
CmdInit ==
    /\ now = 0 /\ ticks = 0
    /\ users \in Profiles
    /\ chats \in Histories /\ stats = <<>>
    /\ invoices = {"inv1"} /\ payments = <<>>
    /\ win = 0 /\ faults = MaxFaults
    /\ provider = [parts |-> {}, max |-> 0]
    /\ slots = {"r1"}
    /\ budget = MaxCommands
    /\ rq = [r \in Reqs |-> IdleReq]

CmdNext ==
    \/ Elapse
    \/ \E r \in Reqs :
        \/ DeliverCommand(r)
        \/ CsFind(r) \/ CsUpd(r)
        \/ GpFind(r) \/ GpInsert(r)
        \/ PayFind(r) \/ PayUnknown(r) \/ PayCreate(r) \/ PayActivate(r)
        \/ PayThanks(r)
        \/ CancelNone(r) \/ CancelSubscription(r) \/ CancelReply(r)
        \/ ResetDelete(r) \/ ResetReply(r)
        \/ Fail(r) \/ Apologize(r)

CmdSpec == CmdInit /\ [][CmdNext]_vars

\* The confirmation of a payment of the stored invoice arrives.
DeliverPayment(r) ==
    /\ Free(r) /\ budget > 0
    /\ budget' = budget - 1
    /\ Goto(r, Command(r, "payment", <<"pay_find", "catch_pay">>, "inv1"))
    /\ UNCHANGED <<now, ticks, users, chats, stats, invoices, payments,
                   slots, faults, provider, win>>

\* The profiles of a user who has been sent an invoice: /pay has created
\* the profile, which is free or is a premium one that ends at Day \div 2.
Invoiced ==
    {<<NewUser(NoName, 0)>>,
     <<[NewUser(NoName, 0) EXCEPT !.subscription = "premium",
                                  !.expiry = Day \div 2]>>}

\* The billing flow: confirmations of payments of a stored invoice are
\* handled in one slot while the expiry check of the user's other updates
\* runs in the other, with days passing and nothing thrown.
BillingInit ==
    /\ now = 0 /\ ticks = 0
    /\ users \in Invoiced
    /\ chats = <<>> /\ stats = <<>>
    /\ invoices = {"inv1"} /\ payments = <<>>
    /\ win = 0 /\ faults = 0
    /\ provider = [parts |-> {}, max |-> 0]
    /\ slots = Reqs
    /\ budget = MaxCommands
    /\ rq = [r \in Reqs |-> IdleReq]

BillingNext ==
    \/ Elapse
    \/ \E r \in Reqs :
        \/ (r = "r1" /\ CallCheckStatus(r))
        \/ (r = "r2" /\ DeliverPayment(r))
        \/ CsFind(r) \/ CsUpd(r) \/ CsNotify(r)
        \/ PayFind(r) \/ PayCreate(r) \/ PayActivate(r) \/ PayThanks(r)

BillingSpec == BillingInit /\ [][BillingNext]_vars

\* The bot: message updates (text, photo) are handled in one slot while
\* account updates (payment confirmation, cancellation) are handled in the
\* other, so every step of a message races with changes of the subscription.
\* There are as many updates as slots: two at once, or one after the other.
\* A completion streams up to two parts of 60 characters.
Init ==
    /\ now = 0 /\ ticks = 0
    /\ users \in Profiles
    /\ chats = <<>> /\ stats = <<>>
    /\ invoices = {"inv1"} /\ payments = <<>>
    /\ win = IF users = <<>> THEN 0 ELSE users[1].dailyRequests
    /\ faults = MaxFaults
    /\ provider = [parts |-> {[len |-> 60, nl |-> FALSE, usage |-> 0]},
                   max |-> 2]
    /\ slots = Reqs
    /\ budget = Cardinality(Reqs)
    /\ rq = [r \in Reqs |-> IdleReq]

Next ==
    \/ Elapse
    \/ \E r \in Reqs :
        \/ (r = "r1" /\ StartText(r))
        \/ (r = "r1" /\ StartPhoto(r))
        \/ (r = "r2" /\ StartPayment(r))
        \/ (r = "r2" /\ StartCancel(r))
        \/ CsFind(r) \/ CsUpd(r) \/ CsNotify(r)
        \/ GpFind(r) \/ GpInsert(r) \/ GpName(r)
        \/ UurDecide(r)
        \/ TextSave(r) \/ TextDeny(r)
        \/ PhotoReply(r) \/ PhotoFile(r) \/ PhotoSave(r)
        \/ StHist(r) \/ StOpen(r) \/ StNext(r) \/ StFlush(r) \/ StFinal(r)
        \/ StSave(r) \/ StUsage(r)
        \/ PayFind(r) \/ PayUnknown(r) \/ PayCreate(r) \/ PayActivate(r)
        \/ PayThanks(r)
        \/ CancelNone(r) \/ CancelSubscription(r) \/ CancelReply(r)
        \/ Fail(r) \/ Apologize(r)

Spec == Init /\ [][Next]_vars

----------------------------------------------------------------------------
(* Claims about the quota ledger *)

Done(r) == rq[r].status = "done"
Deciding(r) == Running(r) /\ Top(r) = "uur_decide" /\ rq'[r] # rq[r]
TierLimit(tier) == IF tier = "premium" THEN 100 ELSE 10
QuotaState(doc) == <<doc.dailyRequests, doc.lastResetDate>>

\* C1: under sequential handling dailyRequests equals the number of calls
\* admitted in the current window (0 for a fresh profile, 1 after the call
\* that reset the window), and a call made inside the window once that
\* number has reached the tier's limit (free 10, premium 100) returns false.
C1_CounterCountsAdmitted ==
    /\ [](users # <<>> => users[1].dailyRequests = win)
    /\ [][\A r \in Reqs :
            ( /\ Deciding(r)
              /\ now < users[1].lastResetDate + Day
              /\ win >= TierLimit(users[1].subscription) )
            => ~rq'[r].can]_vars

\* C1 witness: the window was opened by a reset, ten calls were admitted in
\* it and the eleventh call of the free user has just been denied.
C1_Witness ==
    /\ users # <<>>
    /\ users[1].subscription = "free"
    /\ users[1].lastResetDate > 0
    /\ win = 10 /\ users[1].dailyRequests = 10
    /\ rq["r1"].kind = "quota" /\ Done("r1") /\ ~rq["r1"].can

\* C1 witness for the premium tier: the 101st call is denied.
C1_WitnessPremium ==
    /\ users # <<>>
    /\ users[1].subscription = "premium"
    /\ win = 100 /\ users[1].dailyRequests = 100
    /\ rq["r1"].kind = "quota" /\ Done("r1") /\ ~rq["r1"].can

\* C2: whatever the interleaving of concurrent calls for one user, neither
\* the calls admitted in a window nor dailyRequests exceed the tier's limit.
C2_AtomicQuota ==
    users # <<>> =>
        /\ users[1].dailyRequests <= TierLimit(users[1].subscription)
        /\ win <= TierLimit(users[1].subscription)

\* C3: a call that finds now >= lastResetDate + 24h sets dailyRequests to 1
\* and lastResetDate to now and returns true, whatever the counter and tier.
C3_ResetAdmits ==
    [][\A r \in Reqs :
          (Deciding(r) /\ now >= rq[r].user[1].lastResetDate + Day)
          => /\ users'[1].dailyRequests = 1
             /\ users'[1].lastResetDate = now
             /\ rq'[r].can]_vars

\* C3 witness: a call that read a counter at its limit has reset the window.
C3_Witness ==
    \E r \in Reqs :
        /\ rq[r].kind = "quota" /\ Done(r) /\ rq[r].can
        /\ rq[r].user[1].dailyRequests >= TierLimit(rq[r].user[1].subscription)
        /\ now >= rq[r].user[1].lastResetDate + Day
        /\ users[1].dailyRequests = 1 /\ users[1].lastResetDate = now

\* C4: when a call of updateUserRequests starts on a premium profile whose
\* expiry date has passed, its first entitlement check stores tier free and
\* no expiry, and the limit the call selects is the free one.
C4_ExpiredDowngradedFirst ==
    \A r \in Reqs :
        (rq[r].kind = "quota" /\ rq[r].lapsed /\ rq[r].status # "idle"
            /\ Len(rq[r].stk) < Len(UpdateUserRequests))
        => /\ users[1].subscription = "free"
           /\ users[1].expiry = NoDate
           /\ rq[r].limit \in {0, 10}

\* C4 witness: such a call was denied against the free limit with a counter
\* the premium limit would have admitted.
C4_Witness ==
    /\ rq["r1"].kind = "quota" /\ rq["r1"].lapsed /\ Done("r1")
    /\ ~rq["r1"].can /\ rq["r1"].limit = 10
    /\ users[1].dailyRequests >= 10 /\ users[1].dailyRequests < 100

\* C6: no step of a call of updateUserRequests other than the decision that
\* admits changes dailyRequests or lastResetDate: a denied call leaves both
\* as they were.
C6_DenyMutatesNothing ==
    [][\A r \in Reqs :
          ( /\ rq[r].kind = "quota" /\ Running(r) /\ rq'[r] # rq[r]
            /\ users # <<>>
            /\ ~(Top(r) = "uur_decide" /\ rq'[r].can) )
          => QuotaState(users'[1]) = QuotaState(users[1])]_vars

\* C6 witness: the eleventh call of a free user in one window was denied and
\* the counter is still 10.
C6_Witness ==
    \E r \in Reqs :
        /\ rq[r].kind = "quota" /\ Done(r) /\ ~rq[r].can
        /\ rq[r].user[1].subscription = "free"
        /\ users[1].dailyRequests = 10
        /\ now < users[1].lastResetDate + Day

----------------------------------------------------------------------------
(* Claims about the context store *)

Min(a, b) == IF a < b THEN a ELSE b
Range(q) == {q[i] : i \in 1..Len(q)}
Loading(r) == Running(r) /\ Top(r) = "st_hist" /\ rq'[r] # rq[r]

\* C8: what getChatHistory returns are turns of the user, each stored turn
\* at most once, min(8, number stored) of them, none older than a stored
\* turn left out, in nondecreasing timestamp order, as role and content.
C8_RecentWindow ==
    [][\A r \in Reqs :
          Loading(r) =>
            LET idx == rq'[r].histIdx
                mine == {i \in 1..Len(chats) : chats[i].userId = UserId}
            IN  /\ Len(idx) = Min(8, Cardinality(mine))
                /\ Range(idx) \subseteq mine
                /\ Cardinality(Range(idx)) = Len(idx)
                /\ \A i \in Range(idx) : \A j \in mine \ Range(idx) :
                       chats[j].timestamp <= chats[i].timestamp
                /\ \A i \in 1..Len(idx) : \A j \in i..Len(idx) :
                       chats[idx[i]].timestamp <= chats[idx[j]].timestamp
                /\ Len(rq'[r].hist) = Len(idx)
                /\ \A i \in 1..Len(idx) :
                       /\ rq'[r].hist[i].role = chats[idx[i]].role
                       /\ rq'[r].hist[i].content = chats[idx[i]].content]_vars

\* C8 witness: nine turns of the user are stored, at different times, with
\* a turn of another user among them, and eight were returned, oldest first.
C8_Witness ==
    /\ Cardinality({i \in 1..Len(chats) : chats[i].userId = UserId}) = 9
    /\ \E i \in 1..Len(chats) : chats[i].userId # UserId
    /\ rq["r1"].kind = "history" /\ Done("r1")
    /\ Len(rq["r1"].hist) = 8
    /\ rq["r1"].hist[8].content = chats[Len(chats)].content
    /\ chats[rq["r1"].histIdx[1]].timestamp
           < chats[rq["r1"].histIdx[8]].timestamp

----------------------------------------------------------------------------
(* Claims about the streamed reply *)

\* The message operations that carry the streamed text, in order.
ChunkOps(r) == SelectSeq(rq[r].eff, LAMBDA e : e.kind = "chunk")

\* The call returned and no awaited operation threw.
Streamed(r) == Done(r) /\ rq[r].kind = "stream" /\ ~rq[r].failed

Ceil(n, d) == (n + d - 1) \div d

\* The running total of the deltas passes through every multiple of the
\* chunk size up to the length of the text.
Aligned(t) ==
    \A k \in 1..(TextLen(t) \div STREAM_CHUNK_SIZE) :
        \E i \in 1..Len(t) :
            TextLen(SubSeq(t, 1, i)) = k * STREAM_CHUNK_SIZE

\* The first operation is a send and the later ones edit that message.
SendThenEdits(ops) ==
    \A i \in 1..Len(ops) :
        IF i = 1 THEN ops[i].op = "send"
        ELSE ops[i].op = "edit" /\ ops[i].msg = ops[1].msg

\* C9, as stated: a streamed reply of L characters without a line break
\* produces exactly ceil(L / 100) message operations, however the text is
\* split into deltas; the first is a send, the later ones edits of it.
C9_ExactlyCeil ==
    \A r \in Reqs :
        (Streamed(r) /\ ~HasNewline(rq[r].recv)) =>
            /\ Len(ChunkOps(r))
                   = Ceil(TextLen(rq[r].recv), STREAM_CHUNK_SIZE)
            /\ SendThenEdits(ChunkOps(r))

\* C9, amended: a streamed reply of L characters without a line break
\* produces at most ceil(L / 100) message operations, at least one when
\* L > 0, and exactly ceil(L / 100) when the running total of the deltas
\* passes through every multiple of 100 up to L; the first operation is a
\* send, the later ones are edits of that message, and the last one shows
\* the whole text.
C9_AtMostCeil ==
    \A r \in Reqs :
        (Streamed(r) /\ ~HasNewline(rq[r].recv)) =>
            LET ops == ChunkOps(r)
                L == TextLen(rq[r].recv)
            IN  /\ Len(ops) <= Ceil(L, STREAM_CHUNK_SIZE)
                /\ L > 0 => Len(ops) >= 1
                /\ Aligned(rq[r].recv) =>
                       Len(ops) = Ceil(L, STREAM_CHUNK_SIZE)
                /\ SendThenEdits(ops)
                /\ L > 0 => ops[Len(ops)].text = rq[r].recv

\* 250 characters in deltas of 100, 100 and 50: a send and two edits.
C9_Witness ==
    \E r \in Reqs :
        /\ Streamed(r) /\ ~HasNewline(rq[r].recv)
        /\ TextLen(rq[r].recv) = 250
        /\ Len(ChunkOps(r)) = 3
        /\ TextLen(ChunkOps(r)[1].text) = 100
        /\ TextLen(ChunkOps(r)[2].text) = 200
        /\ ChunkOps(r)[3].op = "edit"

\* The call saved its assistant turn.
SavedReply(r) ==
    /\ rq[r].kind = "stream"
    /\ \E i \in 1..Len(rq[r].eff) :
           rq[r].eff[i].op = "save" /\ rq[r].eff[i].kind = "assistant"

\* C10: once the stream has ended without error, the assistant turn that
\* sendToOpenRouterStream saves is the concatenation of all deltas in the
\* order of arrival, whatever the flushes were.
C10_SavedIsConcatenation ==
    \A r \in Reqs :
        SavedReply(r) =>
            /\ chats # <<>>
            /\ chats[Len(chats)].userId = UserId
            /\ chats[Len(chats)].role = "assistant"
            /\ chats[Len(chats)].content = rq[r].recv

\* Mid-stream flush and a final flush of a non-empty buffer.
C10_Witness ==
    \E r \in Reqs :
        /\ Streamed(r) /\ SavedReply(r)
        /\ Len(rq[r].recv) = 2
        /\ Len(ChunkOps(r)) = 2
        /\ TextLen(ChunkOps(r)[1].text) = 100
        /\ TextLen(chats[Len(chats)].content) = 150

\* A buffer flushed only at the end of the stream, and mid-stream flushes
\* only.
C10_WitnessFinalOnly ==
    \E r \in Reqs :
        /\ Streamed(r) /\ SavedReply(r)
        /\ Len(ChunkOps(r)) = 1 /\ TextLen(rq[r].recv) = 50
        /\ chats[Len(chats)].content = rq[r].recv

C10_WitnessMidOnly ==
    \E r \in Reqs :
        /\ Streamed(r) /\ SavedReply(r)
        /\ Len(ChunkOps(r)) = 2 /\ TextLen(rq[r].recv) = 200

----------------------------------------------------------------------------
(* Claims about the message pipeline *)

Effects(r, ops) ==
    {i \in 1..Len(rq[r].eff) : rq[r].eff[i].op \in ops}

\* updateUserRequests returned false to the request.
QuotaDenied(r) == rq[r].limit > 0 /\ ~rq[r].can

\* C5, as stated: a completion call of a stream that starts with the
\* stored expiry date in the past asks for gpt-4o-mini with max_tokens 2000,
\* a quota decision of a request that starts so applies the limit 10, and a
\* photo that arrives so gets only the premium-only reply.
C5_FreeAfterExpiry ==
    \A r \in Reqs :
        /\ (rq[r].slapsed /\ rq[r].model # "none") =>
               rq[r].model = "gpt-4o-mini" /\ rq[r].maxTokens = 2000
        /\ (rq[r].lapsed /\ rq[r].limit # 0) => rq[r].limit = 10
        /\ (rq[r].lapsed /\ rq[r].kind = "photo") =>
               /\ rq[r].limit = 0
               /\ \A i \in 1..Len(rq[r].eff) :
                      rq[r].eff[i].kind = "premium_only"

\* C5: premium access does not outlive the paid period.  A completion call
\* of a stream that starts with the stored expiry date in the past, with no
\* payment confirmed since, asks for gpt-4o-mini with max_tokens 2000; a
\* quota decision of a request that starts so applies the limit 10; a photo
\* that arrives so gets only the premium-only reply.
C5_NoPremiumAfterExpiry ==
    \A r \in Reqs :
        /\ (rq[r].slapsed /\ ~rq[r].renewed /\ rq[r].model # "none") =>
               rq[r].model = "gpt-4o-mini" /\ rq[r].maxTokens = 2000
        /\ \A i \in Effects(r, {"open"}) :
               (rq[r].slapsed /\ ~rq[r].renewed) =>
                   rq[r].eff[i].kind = "gpt-4o-mini"
        /\ (rq[r].lapsed /\ ~rq[r].renewed /\ rq[r].limit # 0) =>
               rq[r].limit = 10
        /\ (rq[r].lapsed /\ ~rq[r].renewed /\ rq[r].kind = "photo") =>
               /\ rq[r].limit = 0
               /\ \A i \in 1..Len(rq[r].eff) :
                      rq[r].eff[i].kind = "premium_only"

\* The paid period ended while the text message was being handled, after
\* the handler's own checks; the completion is opened on the free tier.
C5_Witness ==
    \E r \in Reqs :
        /\ Done(r) /\ rq[r].kind = "text" /\ ~rq[r].failed
        /\ ~rq[r].lapsed /\ rq[r].slapsed /\ ~rq[r].renewed
        /\ rq[r].model = "gpt-4o-mini" /\ rq[r].maxTokens = 2000
        /\ rq[r].limit = 100

\* A photo that arrives after the paid period ended.
C5_WitnessPhoto ==
    \E r \in Reqs :
        /\ Done(r) /\ rq[r].kind = "photo" /\ ~rq[r].failed
        /\ rq[r].lapsed /\ ~rq[r].renewed
        /\ Len(rq[r].eff) = 1

\* A text message that arrives after the paid period ended.
C5_WitnessQuota ==
    \E r \in Reqs :
        /\ Done(r) /\ rq[r].kind = "text" /\ ~rq[r].failed
        /\ rq[r].lapsed /\ ~rq[r].renewed
        /\ rq[r].limit = 10 /\ rq[r].model = "gpt-4o-mini"

\* C7: a text message denied by the quota check saves no chat turn, opens
\* no completion, streams nothing and records no token usage; when its
\* handler returns without an error, its last reply is the one about the
\* limit, with the buy_premium button exactly when the profile it has just
\* read is free, and it has sent no other such reply.
C7_DeniedGoesNoFurther ==
    \A r \in Reqs :
        (rq[r].kind = "text" /\ QuotaDenied(r)) =>
            /\ Effects(r, {"save", "open", "edit", "usage"}) = {}
            /\ \A i \in 1..Len(rq[r].eff) : rq[r].eff[i].kind # "chunk"
            /\ rq[r].model = "none" /\ rq[r].messages = <<>>
            /\ (Done(r) /\ ~rq[r].failed) =>
                   LET n == Len(rq[r].eff)
                       free == rq[r].user[1].subscription = "free"
                   IN  /\ n >= 1
                       /\ rq[r].eff[n].op = "send"
                       /\ rq[r].eff[n].kind
                              = IF free THEN "limit_free" ELSE "limit"
                       /\ rq[r].eff[n].btn = free
                       /\ \A i \in 1..(n - 1) :
                              rq[r].eff[i].kind \notin {"limit_free", "limit"}

\* A free user at the daily limit is offered the subscription.
C7_Witness ==
    \E r \in Reqs :
        /\ Done(r) /\ rq[r].kind = "text" /\ QuotaDenied(r) /\ ~rq[r].failed
        /\ rq[r].limit = 10
        /\ rq[r].eff = <<Eff("send", "limit_free", TRUE)>>
        /\ chats = <<>> /\ stats = <<>>

\* The payment is confirmed between the denial and the reply.
C7_WitnessUpgraded ==
    \E r \in Reqs :
        /\ Done(r) /\ rq[r].kind = "text" /\ QuotaDenied(r) /\ ~rq[r].failed
        /\ rq[r].eff = <<Eff("send", "limit", FALSE)>>

----------------------------------------------------------------------------
(* Claims about failures of the streamed reply *)

Apologies(r) ==
    {i \in 1..Len(rq[r].eff) : rq[r].eff[i].kind = "st_apology"}

\* A call of sendToOpenRouterStream in which an operation threw after a
\* message with streamed text had been sent.
BrokenStream(r) ==
    /\ rq[r].kind = "stream" /\ rq[r].failed
    /\ rq[r].threw \in {"st_next", "st_flush", "st_final", "st_save",
                        "st_usage"}
    /\ ChunkOps(r) # <<>>

\* C11: once an operation of a streaming response has thrown after a
\* message was sent, the only further effect of sendToOpenRouterStream is
\* one apology reply: no edit follows, no second apology follows, and a call
\* that returns has sent exactly one.
C11_OneApologyNoEdit ==
    /\ [](\A r \in Reqs :
            BrokenStream(r) =>
                /\ Cardinality(Apologies(r)) <= 1
                /\ Done(r) => Cardinality(Apologies(r)) = 1)
    /\ [][\A r \in Reqs :
            BrokenStream(r) =>
                \/ rq'[r].eff = rq[r].eff
                \/ /\ Apologies(r) = {}
                   /\ rq'[r].eff = Append(rq[r].eff,
                                          Eff("send", "st_apology", FALSE))
         ]_vars

\* An edit of the sent message threw; the call returned after its apology.
C11_Witness ==
    \E r \in Reqs :
        /\ BrokenStream(r) /\ Done(r)
        /\ rq[r].threw = "st_flush" /\ rq[r].sent # <<>>
        /\ rq[r].eff[Len(rq[r].eff)].kind = "st_apology"
        /\ rq[r].eff[Len(rq[r].eff) - 1].kind = "chunk"

\* A later delta failed, and persisting the assistant turn failed.
C11_WitnessDelta ==
    \E r \in Reqs :
        BrokenStream(r) /\ Done(r) /\ rq[r].threw = "st_next"

C11_WitnessSave ==
    \E r \in Reqs :
        BrokenStream(r) /\ Done(r) /\ rq[r].threw = "st_save"

\* C12, as stated: when the stream is cut off by an error after a flush,
\* the call still saves an assistant turn whose content is the text that
\* was flushed to the user.
C12_TruncatedTurnSaved ==
    \A r \in Reqs :
        (/\ ~Running(r) /\ rq[r].kind = "stream"
         /\ rq[r].threw \in {"st_next", "st_flush"}
         /\ rq[r].sent # <<>>) =>
            \E i \in 1..Len(chats) :
                /\ chats[i].userId = UserId
                /\ chats[i].role = "assistant"
                /\ chats[i].content = rq[r].sent[1].text

\* C13, as stated: when updateTokenUsage throws after the response was
\* streamed and the assistant turn saved, no apology is sent.
C13_UsageBestEffort ==
    \A r \in Reqs :
        (rq[r].kind = "stream" /\ rq[r].threw = "st_usage"
             /\ SavedReply(r)) =>
            Apologies(r) = {}

\* The usage report that counts: the last one that is not zero, or zero.
LastReported(us) ==
    LET nz == {i \in 1..Len(us) : us[i] # 0}
    IN  IF nz = {} THEN 0
        ELSE us[CHOOSE i \in nz : \A j \in nz : j <= i]

\* The call has recorded its token usage.
UsageRecorded(r) ==
    rq[r].kind = "stream" /\ Effects(r, {"usage"}) # {}

\* C15: the output token count recorded by updateTokenUsage is the usage
\* the provider reported last, and when it reported none it is the length
\* of the response text divided by 4 and rounded up.
C15_OutputTokens ==
    \A r \in Reqs :
        UsageRecorded(r) =>
            LET rep == LastReported(rq[r].usages)
                L == TextLen(rq[r].recv)
                out == stats[1].output
            IN  /\ stats # <<>>
                /\ rep # 0 => out = rep
                /\ rep = 0 => (4 * out >= L /\ 4 * out < L + 4)

\* No usage reported for a response of 110 characters: 28 tokens.
C15_Witness ==
    \E r \in Reqs :
        /\ UsageRecorded(r) /\ Done(r) /\ ~rq[r].failed
        /\ LastReported(rq[r].usages) = 0
        /\ TextLen(rq[r].recv) = 110
        /\ stats[1].output = 28

\* Usage reported by a part of the stream, followed by a part without.
C15_WitnessReported ==
    \E r \in Reqs :
        /\ UsageRecorded(r) /\ Done(r) /\ ~rq[r].failed
        /\ Len(rq[r].usages) = 3
        /\ rq[r].usages[2] = 7 /\ rq[r].usages[3] = 0
        /\ TextLen(rq[r].recv) > 0
        /\ stats[1].output = 7

----------------------------------------------------------------------------
(* Claims about the handlers *)

\* C14, as stated: whatever awaited operation throws while an update is
\* handled, the handler does not end with an uncaught exception.
C14_NoUncaught ==
    \A r \in Reqs : rq[r].status # "crashed"

\* C16, as stated: the users collection never holds more than one profile
\* of the user.
C16_OneProfile == Len(users) <= 1

\* The requests that have sent the expiry notice.
Notified == {r \in Reqs : \E i \in 1..Len(rq[r].eff) :
                              rq[r].eff[i].kind = "expired"}

\* C17, as stated: for one expiry the notice is sent at most once, whatever
\* the interleaving of the calls.
C17_NoticeOnce == Cardinality(Notified) <= 1

----------------------------------------------------------------------------
(* Claims about the commands *)

\* The stored profile the command found is not premium, or there is none.
NotPremium(us) == us = <<>> \/ us[1].subscription # "premium"

\* /cancel_subscription of a user who is not premium has returned.
CancelledNothing(r) ==
    /\ Returned(r) /\ rq[r].kind = "cancel"
    /\ NotPremium(rq[r].pre.users)

\* C18, as stated: /cancel_subscription of a user who is not premium only
\* replies; the users collection, the existence of the profile included,
\* is the same after the command as before it.
C18_CancelNoMutation ==
    \A r \in Reqs : CancelledNothing(r) => users = rq[r].pre.users

\* C18, with the first contact set apart: the command only sends the
\* no-subscription reply; a stored profile that is not premium is left as
\* it was, and for a user with no profile the one change is the insertion
\* of the default free profile by getUserProfile.  Payments and chats are
\* untouched.
C18_CancelOnlyCreates ==
    \A r \in Reqs : CancelledNothing(r) =>
        /\ rq[r].eff = <<Eff("send", "cancel_none", FALSE)>>
        /\ rq[r].pre.users # <<>> => users = rq[r].pre.users
        /\ rq[r].pre.users = <<>> =>
             /\ Len(users) = 1
             /\ users[1] = NewUser(NoName, users[1].lastResetDate)
        /\ payments = rq[r].pre.payments
        /\ chats = rq[r].pre.chats

\* /cancel_subscription has returned for a stored free profile.
C18_Witness ==
    \E r \in Reqs :
        /\ CancelledNothing(r)
        /\ rq[r].pre.users # <<>>
        /\ rq[r].pre.users[1].dailyRequests = FREE_DAILY_LIMIT

\* /cancel_subscription has returned for a user who had no profile.
C18_WitnessFirstContact ==
    \E r \in Reqs : CancelledNothing(r) /\ rq[r].pre.users = <<>>

\* /reset has returned.
ResetDone(r) == Returned(r) /\ rq[r].kind = "reset"

\* C19: after a reset the user's history is empty, a second reset right
\* after the first finds it empty and changes nothing, and the turns of
\* the other users are the same, in the same order, after either reset.
C19_ResetIdempotent ==
    \A r \in Reqs : ResetDone(r) =>
        /\ Matching(UserId) = {}
        /\ OthersTurns(chats, UserId) = OthersTurns(rq[r].pre.chats, UserId)
        /\ rq[r].prev = "reset" => chats = rq[r].pre.chats

\* A reset has deleted the user's two turns and kept the other user's.
C19_Witness ==
    \E r \in Reqs :
        /\ ResetDone(r)
        /\ Len(rq[r].pre.chats) = 3
        /\ Len(chats) = 1

\* A second reset right after the first has returned, with the other
\* user's turn still stored.
C19_WitnessTwice ==
    \E r \in Reqs : ResetDone(r) /\ rq[r].prev = "reset" /\ Len(chats) = 1

\* A payment confirmation whose invoice payload is not stored has returned.
UnknownInvoice(r) ==
    /\ Returned(r) /\ rq[r].kind = "payment"
    /\ rq[r].payload \notin invoices

\* C20: a payment confirmation with an unknown invoice payload is answered
\* with the support reply alone; no payment is recorded and the profile
\* (tier, expiry, everything else) is as the confirmation found it.
C20_UnknownInvoiceNoChange ==
    \A r \in Reqs : UnknownInvoice(r) =>
        /\ rq[r].eff = <<Eff("send", "pay_support", FALSE)>>
        /\ payments = rq[r].pre.payments
        /\ users = rq[r].pre.users
        /\ chats = rq[r].pre.chats

\* An unknown invoice was confirmed for a stored free profile.
C20_Witness ==
    \E r \in Reqs :
        /\ UnknownInvoice(r)
        /\ users # <<>> /\ users[1].subscription = "free"

\* An unknown invoice was confirmed after a payment had been recorded.
C20_WitnessAfterPayment ==
    \E r \in Reqs : UnknownInvoice(r) /\ Len(payments) = 1

----------------------------------------------------------------------------
(* Claims about the text pipeline, the tiers and the billing flow *)

\* The message the completion call gets for the prompt of request r.
PromptTurn(r) == [role |-> "user", content |-> rq[r].prompt]

\* The positions of the prompt in the message list of request r.
PromptAt(r) ==
    {i \in 1..Len(rq[r].messages) : rq[r].messages[i] = PromptTurn(r)}

\* C21, as stated: the message list of the completion call of a text
\* message holds the prompt exactly once, as its last element, after at
\* most 8 turns of context.
C21_PromptOnce ==
    \A r \in Reqs :
        (rq[r].kind = "text" /\ rq[r].messages # <<>>) =>
            /\ PromptAt(r) = {Len(rq[r].messages)}
            /\ Len(rq[r].messages) <= MAX_CONTEXT_MESSAGES + 1

\* C22: a stored profile is premium exactly when it has an expiry date,
\* after any creation, payment, expiry downgrade and cancellation, in
\* whatever order their writes are applied.
C22_PremiumIffExpiry ==
    \A i \in 1..Len(users) :
        users[i].subscription = "premium" <=> users[i].expiry # NoDate

\* A cancellation has turned the premium profile into a free one.
C22_Witness ==
    \E r \in Reqs :
        /\ Done(r) /\ rq[r].kind = "cancel"
        /\ rq[r].eff = <<Eff("send", "cancel_done", FALSE)>>
        /\ users # <<>> /\ users[1].subscription = "free"

\* The expiry check has downgraded the profile and sent its notice.
C22_WitnessExpiry ==
    \E r \in Reqs :
        /\ r \in Notified
        /\ users # <<>> /\ users[1].subscription = "free"

\* A payment has activated a profile that had been created free.
C22_WitnessPayment ==
    \E r \in Reqs :
        /\ Done(r) /\ rq[r].kind = "payment" /\ ~rq[r].failed
        /\ users # <<>> /\ users[1].subscription = "premium"
        /\ users[1].expiry > Day + PremiumPeriod - 1

\* No update is being handled.
Quiet == \A r \in Reqs : ~Running(r)

\* What /profile shows as remaining: the limit of the tier less dailyRequests.
Remaining(doc) == DailyLimit(doc) - doc.dailyRequests

\* C23, as stated, for the states between two updates handled one after
\* the other: the counter of a stored profile is at most the daily limit
\* of its current tier, so the remaining quota is never negative.
C23_WithinTierLimit ==
    Quiet => \A i \in 1..Len(users) : Remaining(users[i]) >= 0

\* The payment document createPayment inserts for request r.
PaymentOf(r) ==
    [invoice |-> rq[r].payload, user |-> UserId, status |-> "completed"]

\* The handler of the payment confirmation r returns in this step, having
\* found its invoice and with nothing thrown.
PaymentReturns(r) ==
    /\ rq[r].kind = "payment" /\ Running(r)
    /\ rq[r].payload \in invoices
    /\ rq'[r].status = "done" /\ ~rq'[r].failed

\* C24, as stated, for a payer whose profile is stored: when the handler
\* of a confirmation that references a stored invoice returns without an
\* error, one completed payment has been added and the stored profile is
\* premium, with an expiry date 30 days after a time of the handling.
C24_PaidIsPremium ==
    [][\A r \in Reqs : PaymentReturns(r) =>
          /\ payments' = Append(rq[r].pre.payments, PaymentOf(r))
          /\ users'[1].subscription = "premium"
          /\ users'[1].expiry >= PremiumPeriod
          /\ users'[1].expiry <= now' + PremiumPeriod]_vars

====
